---- MODULE Spec2Model ----
(***************************************************************************)
(* Model of src/app.py: the discussion-forum application's store (threads, *)
(* posts, ai_summaries), the request handlers that write it, the           *)
(* idempotency cache of summarize_thread, the retrying generation client   *)
(* call_openai_with_prompt, the style rotation, the feed of home and the   *)
(* public pages.                                                           *)
(*                                                                         *)
(* Text is a sequence of tokens (strings); concatenation is \o.  A sha256  *)
(* digest is modelled collision-free, as its preimage between two marker   *)
(* tokens that no text contains.                                           *)
(*                                                                         *)
(* Specifications: Spec (the store and its handlers), SpecClient (one      *)
(* activation of the client), SpecConcurrent (two activations),            *)
(* SpecStyle, SpecFingerprint and SpecFeed (a function or a handler's      *)
(* computation on inputs drawn from bounded sets), SpecPublish (threads    *)
(* published, unpublished and read through their token).                   *)
(***************************************************************************)
EXTENDS Integers, Sequences, FiniteSets, TLC

\* ------------------------------------------------------------------ bounds
MaxThreads == 2
MaxPosts == 3
MaxReqs == 2
MaxSeedRows == 1

\* --------------------------------------------------------------- constants
N_RECENT == 10

OPENAI_MODEL == "gpt-4o-mini"

mode == "conversation"

\* id of the row INSERT OR IGNORE leaves in users for 'ai@local'
AiUserId == 1

\* a logged-in session's user id (login_required lets no other request pass)
SessionUsers == {2}

ThreadIds == 1..MaxThreads

\* request bodies a form can carry, before sanitize_text; <<>> is the empty text
UserTexts == {<< >>, <<" ">>, <<"a">>, <<"a", "\\x00">>}

\* texts the generation API has produced
GenTexts == {<<"g1">>, <<"g2">>}

AI_PREFIX == <<"[AI]", "\n">>

Reqs == 1..MaxReqs

\* ------------------------------------------------------------------- state
VARIABLES
    threads,        \* table threads, in id order: threads[i].id = i
    posts,          \* table posts, in id order: posts[i].id = i
    ai_summaries,   \* table ai_summaries, in id order
    req,            \* the summarize_thread requests in flight, one per handler context
    OPENAI_API_KEY, \* the credential read from the environment at import; << >> when unset
    call,           \* the activation of call_openai_with_prompt
    call2,          \* a second activation of call_openai_with_prompt, in another thread
    hint,           \* the last two activations of _style_hint_for_thread: arguments and result
    fp,             \* two summarize_thread requests at the cache key: the locals of lines 577-603
    feed,           \* a GET / for a thread: the rows of its two SELECTs and the history it renders
    view,           \* the last two responses of public_view
    boot            \* init_done, the executions of init_db, and each server thread's place in a request

storeVars == <<threads, posts, ai_summaries, req>>

\* what the handlers of the store and the first activation never touch
otherVars == <<call2, hint, fp, feed, view, boot>>

vars == <<threads, posts, ai_summaries, req, OPENAI_API_KEY, call, otherVars>>

\* ------------------------------------------------------------ pure helpers
Whitespace == {" ", "\n", "\t"}

\* the control characters of [\x00-\x08\x0b\x0c\x0e-\x1f]
ControlChars == {"\\x00", "\\x1f"}

RECURSIVE LStrip(_)
LStrip(text) ==
    IF text # << >> /\ Head(text) \in Whitespace THEN LStrip(Tail(text)) ELSE text

RECURSIVE RStrip(_)
RStrip(text) ==
    IF text # << >> /\ text[Len(text)] \in Whitespace
    THEN RStrip(SubSeq(text, 1, Len(text) - 1))
    ELSE text

\* str.strip()
Strip(text) == RStrip(LStrip(text))

\* re.sub(control characters, " ", text).strip()
fallback_sanitize(text) ==
    Strip([i \in 1..Len(text) |-> IF text[i] \in ControlChars THEN " " ELSE text[i]])

\* sanitize.py defines no sanitize_text, so the import fails and the fallback is bound
sanitize_text(text) == fallback_sanitize(text)

\* sanitize_text(request.form.get(name, "").strip())
FormText(raw) == sanitize_text(Strip(raw))

styles == <<"s0_questions", "s1_conclusion_first", "s2_three_points",
            "s3_empathy", "s4_risk_merit">>

\* faulty variant: the rotation leaves the latest post out
style_hint_for_thread_ignores_latest(thread_id, latest_post_id) ==
    LET idx == thread_id % Len(styles)
    IN  styles[idx + 1]

style_hint_for_thread(thread_id, latest_post_id) ==
    LET idx == (thread_id + latest_post_id) % Len(styles)
    IN  styles[idx + 1]

NoHint == [thread_id |-> -1, latest_post_id |-> -1, style |-> ""]

NoHints == [prev |-> NoHint, last |-> NoHint]

sha256(text) == <<"sha256(">> \o text \o <<")">>

\* the posts of a thread, oldest first (ORDER BY id ASC)
PostsOf(table, thread_id) ==
    SelectSeq(table, LAMBDA p : p.thread_id = thread_id)

Reverse(s) == [i \in 1..Len(s) |-> s[Len(s) + 1 - i]]

\* ORDER BY id DESC LIMIT n
RecentOf(table, thread_id, n) ==
    LET desc == Reverse(PostsOf(table, thread_id))
    IN  SubSeq(desc, 1, IF Len(desc) < n THEN Len(desc) ELSE n)

RECURSIVE JoinRecent(_)
\* "\n\n".join(f"- {r['content']}" for r in recent), over the contents
JoinRecent(contents) ==
    IF contents = << >> THEN << >>
    ELSE IF Len(contents) = 1 THEN <<"- ">> \o contents[1]
    ELSE <<"- ">> \o contents[1] \o <<"\n\n">> \o JoinRecent(Tail(contents))

recent_text_of(recent) == JoinRecent([i \in 1..Len(recent) |-> recent[i].content])

\* hashlib.sha256(recent_text).hexdigest()[:16]
recent_digest(recent_text) == <<"sha16(">> \o recent_text \o <<")">>

raw_for_hash(article_text, latest_post_id, recent_text, style_hint, md, model) ==
    article_text \o <<"\n#last=", ToString(latest_post_id)>>
                 \o <<"\n#recent=">> \o recent_digest(recent_text)
                 \o <<"\n#style=", style_hint>>
                 \o <<"\n#mode=", md>>
                 \o <<"\n#model=", model>>

hash_key_of(thread_id, article_text, latest_post_id, recent_text) ==
    sha256(raw_for_hash(article_text, latest_post_id, recent_text,
                        style_hint_for_thread(thread_id, latest_post_id),
                        mode, OPENAI_MODEL))

\* CREATE UNIQUE INDEX uq_ai_summaries_thread_hash ON ai_summaries(thread_id, hash_key)
uq_ai_summaries_thread_hash(rows) ==
    \A i, j \in 1..Len(rows) :
        (rows[i].thread_id = rows[j].thread_id /\ rows[i].hash_key = rows[j].hash_key)
            => i = j

\* SELECT content FROM ai_summaries WHERE thread_id=? AND hash_key=?
CacheRows(rows, thread_id, hash_key) ==
    {i \in 1..Len(rows) : rows[i].thread_id = thread_id /\ rows[i].hash_key = hash_key}

\* a request before its key is computed: what the session, the clock, the
\* environment and the two SELECTs on posts gave it
NewFingerprint(thread_id, user, now, article_text, recent, latest_post_id, model) ==
    [pc |-> "new", thread_id |-> thread_id, user |-> user, now |-> now,
     article_text |-> article_text, recent |-> recent,
     latest_post_id |-> latest_post_id, model |-> model,
     recent_text |-> << >>, style_hint |-> "", md |-> "", raw_for_hash |-> << >>,
     hash_key |-> << >>]

NoFingerprints == << >>

NoView == [token |-> << >>, status |-> 0, thread_id |-> 0]

NoViews == [prev |-> NoView, last |-> NoView]

MaxWorkers == 3

\* the threads on which the server runs requests of one process
Workers == 1..MaxWorkers

\* a process that has served nothing yet
NoBoot == [init_done |-> FALSE, started |-> 0, completed |-> 0,
           pc |-> [w \in Workers |-> "idle"]]

NoFeed == [pc |-> "idle", msgs |-> << >>, posts |-> << >>, history |-> << >>]

IdleReq == [pc |-> "idle", thread_id |-> 0, user |-> 0, article_text |-> << >>,
            latest_post_id |-> 0, hash_key |-> << >>, hit |-> << >>,
            status |-> 0, posted |-> << >>, gen |-> 0, generated |-> << >>]

KeyValues == {<< >>, <<"sk-key">>}

IdleCall == [pc |-> "idle", prompt |-> << >>, retries |-> 0, attempt |-> 0,
             messages |-> << >>, last_err |-> << >>, sent |-> << >>,
             sleeps |-> << >>, outcomes |-> << >>, ok |-> FALSE, text |-> << >>]

\* ------------------------------------------------- call_openai_with_prompt
MaxRetries == 3

\* seconds slept per attempt number, in tenths of a second
BackoffHttp == 12

BackoffEmpty == 8

BackoffNetwork == 10

\* resp.text[:500]
ErrDetailLimit == 500

Prompts == {<<"p1">>, <<"p2">>}

TransientStatuses == {429, 500, 502, 503, 504}

ErrorStatuses == TransientStatuses \cup {400, 401, 404}

Filler(n) == [i \in 1..n |-> "x"]

\* bodies of error responses: a short one and one longer than the detail limit
ErrorBodies == {Filler(2), Filler(ErrDetailLimit + 1)}

\* choices[0].message.content of a response with status < 400
ReplyTexts == {<< >>, <<" ", "\n">>, <<"g1">>, <<" ", "g2", "\n">>}

NetworkErrors == {<<"timed out">>, <<"connection refused">>}

\* what one client.post can come to
Upstream ==
    {[kind |-> "http", status |-> st, body |-> b] : st \in ErrorStatuses, b \in ErrorBodies}
        \cup {[kind |-> "http", status |-> 200, body |-> t] : t \in ReplyTexts}
        \cup {[kind |-> "exception", status |-> 0, body |-> e] : e \in NetworkErrors}

Min(a, b) == IF a < b THEN a ELSE b

InitialMessages(prompt) ==
    <<[role |-> "system", content |-> <<"You are a helpful, concise, reliable Japanese assistant.">>],
      [role |-> "user", content |-> prompt]>>

CorrectiveMessage == [role |-> "user", content |-> <<"previous answer was empty; reply with text">>]

\* f"HTTP {resp.status_code}: {resp.text[:500]}"
HttpErrDetail(status, body) ==
    <<"HTTP ", ToString(status), ": ">> \o SubSeq(body, 1, Min(Len(body), ErrDetailLimit))

MSG_NO_KEY == <<"set OPENAI_API_KEY">>

MSG_API_ERROR == <<"API error: ">>

MSG_EMPTY == <<"the reply was empty">>

MSG_NETWORK == <<"network error: ">>

MSG_FAILED == <<"failed: ">>

Return(ok, text) == [call EXCEPT !.pc = "done", !.ok = ok, !.text = text]

\* faulty variant: the credential is not checked
call_enter_no_key_check(prompt, retries) ==
    /\ call.pc \in {"idle", "done"}
    /\ call' = [IdleCall EXCEPT !.pc = "loop", !.prompt = prompt, !.retries = retries,
                                !.messages = InitialMessages(prompt),
                                !.last_err = <<"unknown error">>]
    /\ UNCHANGED <<storeVars, OPENAI_API_KEY, otherVars>>

\* the credential check, the payload and last_err, up to the for loop
call_enter(prompt, retries) ==
    /\ call.pc \in {"idle", "done"}
    /\ IF OPENAI_API_KEY = << >>
       THEN call' = [IdleCall EXCEPT !.pc = "done", !.prompt = prompt,
                                     !.retries = retries, !.text = MSG_NO_KEY]
       ELSE call' = [IdleCall EXCEPT !.pc = "loop", !.prompt = prompt,
                                     !.retries = retries,
                                     !.messages = InitialMessages(prompt),
                                     !.last_err = <<"unknown error">>]
    /\ UNCHANGED <<storeVars, OPENAI_API_KEY, otherVars>>

\* faulty variant: the last retry is given up (attempt < retries - 1)
OnHttpError_gives_up_early(c, attempt, up) ==
    LET err == HttpErrDetail(up.status, up.body) IN
    IF up.status \in TransientStatuses /\ attempt < c.retries - 1
    THEN [c EXCEPT !.last_err = err, !.sleeps = Append(@, BackoffHttp * attempt)]
    ELSE [c EXCEPT !.last_err = err, !.pc = "done", !.ok = FALSE,
                   !.text = MSG_API_ERROR \o err]

\* faulty variant: every status >= 400 is retried while attempts remain
OnHttpError_retries_any_status(c, attempt, up) ==
    LET err == HttpErrDetail(up.status, up.body) IN
    IF attempt < c.retries
    THEN [c EXCEPT !.last_err = err, !.sleeps = Append(@, BackoffHttp * attempt)]
    ELSE [c EXCEPT !.last_err = err, !.pc = "done", !.ok = FALSE,
                   !.text = MSG_API_ERROR \o err]

\* the body of `if resp.status_code >= 400`
OnHttpError(c, attempt, up) ==
    LET err == HttpErrDetail(up.status, up.body) IN
    IF up.status \in TransientStatuses /\ attempt < c.retries
    THEN [c EXCEPT !.last_err = err, !.sleeps = Append(@, BackoffHttp * attempt)]
    ELSE [c EXCEPT !.last_err = err, !.pc = "done", !.ok = FALSE,
                   !.text = MSG_API_ERROR \o err]

\* faulty variant: an empty reply ends the call at once
OnReply_fails_on_empty(c, attempt, up) ==
    IF up.body # << >> /\ Strip(up.body) # << >>
    THEN [c EXCEPT !.pc = "done", !.ok = TRUE, !.text = Strip(up.body)]
    ELSE [c EXCEPT !.pc = "done", !.ok = FALSE, !.text = MSG_EMPTY]

\* faulty variant: the text is returned as received, not stripped
OnReply_returns_untrimmed(c, attempt, up) ==
    IF up.body # << >> /\ Strip(up.body) # << >>
    THEN [c EXCEPT !.pc = "done", !.ok = TRUE, !.text = up.body]
    ELSE IF attempt < c.retries
    THEN [c EXCEPT !.messages = Append(@, CorrectiveMessage),
                   !.sleeps = Append(@, BackoffEmpty * attempt)]
    ELSE [c EXCEPT !.messages = Append(@, CorrectiveMessage),
                   !.pc = "done", !.ok = FALSE, !.text = MSG_EMPTY]

\* status < 400: the text is returned stripped, or the empty reply is retried
OnReply(c, attempt, up) ==
    IF up.body # << >> /\ Strip(up.body) # << >>
    THEN [c EXCEPT !.pc = "done", !.ok = TRUE, !.text = Strip(up.body)]
    ELSE IF attempt < c.retries
    THEN [c EXCEPT !.messages = Append(@, CorrectiveMessage),
                   !.sleeps = Append(@, BackoffEmpty * attempt)]
    ELSE [c EXCEPT !.messages = Append(@, CorrectiveMessage),
                   !.pc = "done", !.ok = FALSE, !.text = MSG_EMPTY]

\* faulty variant: last_err is not assigned before it is reported
OnException_reports_stale_error(c, attempt, up) ==
    IF attempt < c.retries
    THEN [c EXCEPT !.sleeps = Append(@, BackoffNetwork * attempt)]
    ELSE [c EXCEPT !.pc = "done", !.ok = FALSE, !.text = MSG_NETWORK \o c.last_err]

\* faulty variant: the sleep does not grow with the attempt number
OnException_constant_backoff(c, attempt, up) ==
    IF attempt < c.retries
    THEN [c EXCEPT !.last_err = up.body, !.sleeps = Append(@, BackoffNetwork)]
    ELSE [c EXCEPT !.last_err = up.body, !.pc = "done", !.ok = FALSE,
                   !.text = MSG_NETWORK \o up.body]

\* except Exception as e
OnException(c, attempt, up) ==
    IF attempt < c.retries
    THEN [c EXCEPT !.last_err = up.body, !.sleeps = Append(@, BackoffNetwork * attempt)]
    ELSE [c EXCEPT !.last_err = up.body, !.pc = "done", !.ok = FALSE,
                   !.text = MSG_NETWORK \o up.body]

\* faulty variant: the loop body runs once before the budget is looked at
call_attempt_ignores_budget(up) ==
    /\ call.pc = "loop"
    /\ LET attempt == call.attempt + 1
           c == [call EXCEPT !.attempt = attempt,
                             !.sent = Append(@, call.messages),
                             !.outcomes = Append(@, up)]
       IN  call' = IF up.kind = "exception" THEN OnException(c, attempt, up)
                   ELSE IF up.status >= 400 THEN OnHttpError(c, attempt, up)
                   ELSE OnReply(c, attempt, up)
    /\ UNCHANGED <<storeVars, OPENAI_API_KEY, otherVars>>

\* one iteration of `for attempt in range(1, retries + 1)`: one client.post
call_attempt(up) ==
    /\ call.pc = "loop"
    /\ call.attempt < call.retries
    /\ LET attempt == call.attempt + 1
           c == [call EXCEPT !.attempt = attempt,
                             !.sent = Append(@, call.messages),
                             !.outcomes = Append(@, up)]
       IN  call' = IF up.kind = "exception" THEN OnException(c, attempt, up)
                   ELSE IF up.status >= 400 THEN OnHttpError(c, attempt, up)
                   ELSE OnReply(c, attempt, up)
    /\ UNCHANGED <<storeVars, OPENAI_API_KEY, otherVars>>

\* the return after the for loop
call_exhausted ==
    /\ call.pc = "loop"
    /\ call.attempt >= call.retries
    /\ call' = Return(FALSE, MSG_FAILED \o call.last_err)
    /\ UNCHANGED <<storeVars, OPENAI_API_KEY, otherVars>>

\* ------------------------------------------------------------------- Init
\* The store is a file that outlives the process (init_db only creates what
\* is missing), so ai_summaries starts with the rows earlier runs left, under
\* the unique index.  The rows are keyed as summarize_thread keys a thread
\* that holds one or two posts: thread t was created with post t or a later
\* one.  The rows lie in the table in one fixed order.
StoredTexts == {FormText(x) : x \in UserTexts} \ {<< >>}

SeedTexts == GenTexts

SeedContents == StoredTexts \cup {AI_PREFIX \o g : g \in SeedTexts}

SeedRecents ==
    {<<a>> : a \in StoredTexts} \cup {<<c, a>> : c \in SeedContents, a \in StoredTexts}

SeedRow(t, l, r, c) ==
    [id |-> 0, thread_id |-> t, model |-> OPENAI_MODEL, mode |-> mode,
     content |-> c, hash_key |-> hash_key_of(t, r[Len(r)], l, JoinRecent(r))]

SeedRows ==
    UNION {{SeedRow(t, l, r, c) : l \in t..MaxPosts, r \in SeedRecents, c \in SeedTexts}
              : t \in ThreadIds}

RECURSIVE TableOf(_)
TableOf(rows) ==
    IF rows = {} THEN << >>
    ELSE LET row == CHOOSE x \in rows : TRUE IN <<row>> \o TableOf(rows \ {row})

RECURSIVE SubsetsUpTo(_, _)
\* the subsets of S with at most n elements
SubsetsUpTo(S, n) ==
    IF n = 0 THEN {{}}
    ELSE LET smaller == SubsetsUpTo(S, n - 1)
         IN  smaller \cup {x \cup {e} : x \in smaller, e \in S}

SeedTables == {TableOf(rows) : rows \in SubsetsUpTo(SeedRows, MaxSeedRows)}

Init ==
    /\ OPENAI_API_KEY \in KeyValues
    /\ call = IdleCall
    /\ call2 = IdleCall
    /\ hint = NoHints
    /\ fp = NoFingerprints
    /\ feed = NoFeed
    /\ view = NoViews
    /\ boot = NoBoot
    /\ threads = << >>
    /\ posts = << >>
    /\ \E tbl \in SeedTables :
          /\ ai_summaries = [i \in 1..Len(tbl) |-> [tbl[i] EXCEPT !.id = i]]
          /\ uq_ai_summaries_thread_hash(tbl)
    /\ req = [r \in Reqs |-> IdleReq]

\* ---------------------------------------------------------------- actions
\* the posts written by users; MaxPosts caps them.  The posts summarize_thread
\* writes need no cap: each served row is keyed to the newest post id.
UserPosts == Cardinality({i \in 1..Len(posts) : posts[i].user_id # AiUserId})

NewPost(thread_id, user_id, content) ==
    [id |-> Len(posts) + 1, thread_id |-> thread_id, user_id |-> user_id,
     parent_post_id |-> 0, content |-> content, is_hidden |-> 0]

\* POST /threads
create_thread_route(u, title, body) ==
    /\ Len(threads) < MaxThreads
    /\ UserPosts < MaxPosts
    /\ IF FormText(title) = << >> \/ FormText(body) = << >>
       THEN UNCHANGED <<threads, posts>>
       ELSE LET thread_id == Len(threads) + 1 IN
            /\ threads' = Append(threads,
                    [id |-> thread_id, title |-> FormText(title), created_by |-> u,
                     is_public |-> 1, public_token |-> << >>, status |-> "open"])
            /\ posts' = Append(posts, NewPost(thread_id, u, FormText(body)))
    /\ UNCHANGED <<ai_summaries, req, OPENAI_API_KEY, call, otherVars>>

\* POST /threads/<thread_id>/posts
add_post(u, thread_id, content) ==
    /\ UserPosts < MaxPosts
    /\ IF FormText(content) = << >>
       THEN UNCHANGED posts
       ELSE IF thread_id \notin 1..Len(threads) \/ threads[thread_id].status = "locked"
       THEN UNCHANGED posts
       ELSE posts' = Append(posts, NewPost(thread_id, u, FormText(content)))
    /\ UNCHANGED <<threads, ai_summaries, req, OPENAI_API_KEY, call, otherVars>>

\* POST /threads/<thread_id>/summarize in handler context r: the two SELECTs
\* on posts (the first post never changes once it exists) and the cache key
summarize_read(r, u, thread_id) ==
    /\ req[r].pc \in {"idle", "done"}
    /\ LET mine   == PostsOf(posts, thread_id)
           recent == RecentOf(posts, thread_id, N_RECENT)
           new    == [IdleReq EXCEPT !.thread_id = thread_id, !.user = u]
       IN  IF mine = << >>
           THEN req' = [req EXCEPT ![r] = [new EXCEPT !.pc = "done", !.status = 400]]
           ELSE req' = [req EXCEPT ![r] = [new EXCEPT
                   !.pc = "lookup",
                   !.article_text = mine[1].content,
                   !.latest_post_id = recent[1].id,
                   !.hash_key = hash_key_of(thread_id, mine[1].content,
                                            recent[1].id, recent_text_of(recent))]]
    /\ UNCHANGED <<threads, posts, ai_summaries, OPENAI_API_KEY, call, otherVars>>

\* SELECT ... FROM ai_summaries WHERE thread_id=? AND hash_key=? LIMIT 1
summarize_lookup(r) ==
    /\ req[r].pc = "lookup"
    /\ LET found == CacheRows(ai_summaries, req[r].thread_id, req[r].hash_key)
       IN  IF found = {}
           THEN req' = [req EXCEPT ![r].pc = "finish", ![r].hit = << >>]
           ELSE \E i \in found :
                    req' = [req EXCEPT ![r].pc = "finish", ![r].hit = <<ai_summaries[i]>>]
    /\ UNCHANGED <<threads, posts, ai_summaries, OPENAI_API_KEY, call, otherVars>>

\* what call_openai_with_prompt can hand its caller
GenerationResults ==
    IF OPENAI_API_KEY = << >>
    THEN {[ok |-> FALSE, text |-> MSG_NO_KEY]}
    ELSE {[ok |-> TRUE, text |-> g] : g \in GenTexts}
            \cup {[ok |-> FALSE, text |-> MSG_EMPTY]}

NewSummary(thread_id, content, hash_key) ==
    [id |-> Len(ai_summaries) + 1, thread_id |-> thread_id, model |-> OPENAI_MODEL,
     mode |-> mode, content |-> content, hash_key |-> hash_key]

\* the hit branch of summarize_thread, with gen generator calls on the way
ServeHit(r, gen) ==
    LET content == AI_PREFIX \o req[r].hit[1].content IN
    /\ posts' = Append(posts, NewPost(req[r].thread_id, AiUserId, content))
    /\ req' = [req EXCEPT ![r].pc = "done", ![r].status = 302, ![r].posted = content,
                          ![r].gen = gen]

\* a miss that generates and stores; unique: the index is in force;
\* keep_failures: the result is stored whether or not the generation succeeded
GenerateAndStore(r, unique, keep_failures) ==
    \E g \in GenerationResults :
        IF ~g.ok /\ ~keep_failures
        THEN /\ req' = [req EXCEPT ![r].pc = "done", ![r].status = 500, ![r].gen = 1]
             /\ UNCHANGED <<posts, ai_summaries>>
        ELSE IF unique /\ CacheRows(ai_summaries, req[r].thread_id, req[r].hash_key) # {}
        THEN /\ req' = [req EXCEPT ![r].pc = "done", ![r].status = 500, ![r].gen = 1,
                                   ![r].generated = <<g.text>>]
             /\ UNCHANGED <<posts, ai_summaries>>
        ELSE /\ Len(posts) < MaxPosts + MaxReqs
             /\ ai_summaries' = Append(ai_summaries,
                    NewSummary(req[r].thread_id, g.text, req[r].hash_key))
             /\ posts' = Append(posts,
                    NewPost(req[r].thread_id, AiUserId, AI_PREFIX \o g.text))
             /\ req' = [req EXCEPT ![r].pc = "done", ![r].status = 302, ![r].gen = 1,
                                   ![r].generated = <<g.text>>,
                                   ![r].posted = AI_PREFIX \o g.text]

\* faulty variant: the generator is called before the cache is consulted
summarize_finish_generates_first(r) ==
    /\ req[r].pc = "finish"
    /\ IF req[r].hit # << >>
       THEN ServeHit(r, 1)
       ELSE /\ posts' = posts
            /\ req' = [req EXCEPT ![r].pc = "done", ![r].status = 302, ![r].gen = 1]
    /\ UNCHANGED <<threads, ai_summaries, OPENAI_API_KEY, call, otherVars>>

\* faulty variant: a miss generates and inserts; the insert's IntegrityError is not handled
summarize_finish_unhandled_collision(r) ==
    /\ req[r].pc = "finish"
    /\ IF req[r].hit # << >>
       THEN ServeHit(r, 0) /\ UNCHANGED ai_summaries
       ELSE GenerateAndStore(r, TRUE, FALSE)
    /\ UNCHANGED <<threads, OPENAI_API_KEY, call, otherVars>>

\* faulty variant: a miss generates and inserts into a table that has lost its unique index
summarize_finish_no_unique_index(r) ==
    /\ req[r].pc = "finish"
    /\ IF req[r].hit # << >>
       THEN ServeHit(r, 0) /\ UNCHANGED ai_summaries
       ELSE GenerateAndStore(r, FALSE, FALSE)
    /\ UNCHANGED <<threads, OPENAI_API_KEY, call, otherVars>>

\* faulty variant: a miss stores what the generator returned without looking at ok
summarize_finish_caches_failure(r) ==
    /\ req[r].pc = "finish"
    /\ IF req[r].hit # << >>
       THEN ServeHit(r, 0) /\ UNCHANGED ai_summaries
       ELSE GenerateAndStore(r, TRUE, TRUE)
    /\ UNCHANGED <<threads, OPENAI_API_KEY, call, otherVars>>

\* faulty variant: a hit writes the posted text back into the cached row
summarize_finish_rewrites_row(r) ==
    /\ req[r].pc = "finish"
    /\ IF req[r].hit # << >>
       THEN /\ ServeHit(r, 0)
            /\ ai_summaries' = [ai_summaries EXCEPT
                    ![req[r].hit[1].id].content = AI_PREFIX \o @]
       ELSE /\ posts' = posts
            /\ req' = [req EXCEPT ![r].pc = "done", ![r].status = 302]
            /\ UNCHANGED ai_summaries
    /\ UNCHANGED <<threads, OPENAI_API_KEY, call, otherVars>>

\* faulty variant: a hit posts the cached text under the requesting user's id
summarize_finish_posts_as_caller(r) ==
    /\ req[r].pc = "finish"
    /\ IF req[r].hit # << >>
       THEN LET content == AI_PREFIX \o req[r].hit[1].content IN
            /\ posts' = Append(posts, NewPost(req[r].thread_id, req[r].user, content))
            /\ req' = [req EXCEPT ![r].pc = "done", ![r].status = 302,
                                  ![r].posted = content]
       ELSE /\ posts' = posts
            /\ req' = [req EXCEPT ![r].pc = "done", ![r].status = 302]
    /\ UNCHANGED <<threads, ai_summaries, OPENAI_API_KEY, call, otherVars>>

\* faulty variant: a hit redirects without inserting the post
summarize_finish_serves_without_post(r) ==
    /\ req[r].pc = "finish"
    /\ IF req[r].hit # << >>
       THEN req' = [req EXCEPT ![r].pc = "done", ![r].status = 302,
                               ![r].posted = AI_PREFIX \o req[r].hit[1].content]
       ELSE req' = [req EXCEPT ![r].pc = "done", ![r].status = 302]
    /\ UNCHANGED <<threads, posts, ai_summaries, OPENAI_API_KEY, call, otherVars>>

\* if hit: INSERT INTO posts ...; commit.  Then, hit or not: close, redirect.
\* The lines after the redirect (generation, INSERT INTO ai_summaries) never run.
summarize_finish(r) ==
    /\ req[r].pc = "finish"
    /\ IF req[r].hit # << >>
       THEN LET content == AI_PREFIX \o req[r].hit[1].content IN
            /\ posts' = Append(posts, NewPost(req[r].thread_id, AiUserId, content))
            /\ req' = [req EXCEPT ![r].pc = "done", ![r].status = 302,
                                  ![r].posted = content]
       ELSE /\ posts' = posts
            /\ req' = [req EXCEPT ![r].pc = "done", ![r].status = 302]
    /\ UNCHANGED <<threads, ai_summaries, OPENAI_API_KEY, call, otherVars>>

Next ==
    \/ \E u \in SessionUsers, title \in UserTexts, body \in UserTexts :
            create_thread_route(u, title, body)
    \/ \E u \in SessionUsers, t \in ThreadIds, c \in UserTexts : add_post(u, t, c)
    \/ \E r \in Reqs, u \in SessionUsers, t \in ThreadIds : summarize_read(r, u, t)
    \/ \E r \in Reqs : summarize_lookup(r)
    \/ \E r \in Reqs : summarize_finish(r)

Spec == Init /\ [][Next]_vars

NextClient ==
    \/ \E prompt \in Prompts, retries \in 0..MaxRetries : call_enter(prompt, retries)
    \/ \E up \in Upstream : call_attempt(up)
    \/ call_exhausted

InitClient ==
    /\ OPENAI_API_KEY \in KeyValues
    /\ call = IdleCall
    /\ call2 = IdleCall
    /\ hint = NoHints
    /\ fp = NoFingerprints
    /\ feed = NoFeed
    /\ view = NoViews
    /\ boot = NoBoot
    /\ threads = << >>
    /\ posts = << >>
    /\ ai_summaries = << >>
    /\ req = [r \in Reqs |-> IdleReq]

\* call_openai_with_prompt on its own, for every prompt, budget and upstream
SpecClient == InitClient /\ [][NextClient]_vars

\* retries is an int parameter: a budget below one gives an empty range
Budgets == -1..MaxRetries

NextClientFair ==
    \/ \E prompt \in Prompts, retries \in Budgets : call_enter(prompt, retries)
    \/ \E up \in Upstream : call_attempt(up)
    \/ call_exhausted

\* a call that has entered its loop keeps running: client.post comes back
\* within its timeout with a response or an exception, and every sleep ends
SpecClientFair ==
    /\ InitClient
    /\ [][NextClientFair]_vars
    /\ WF_vars(\E up \in Upstream : call_attempt(up))
    /\ WF_vars(call_exhausted)

\* ------------------------------------------- two activations side by side
\* Flask serves requests on threads of one process, so two handlers can be
\* inside call_openai_with_prompt at once.  payload and last_err are locals
\* of the activation that built them.

\* replies the second activation's upstream is taken through
ConcurrentUpstream ==
    {up \in Upstream :
        \/ up.kind = "http" /\ up.status = 200 /\ up.body \in {<< >>, <<"g1">>}
        \/ up.kind = "http" /\ up.status = 503 /\ Len(up.body) <= ErrDetailLimit}

\* faulty variant: the payload is one object of the module; an activation
\* that finds it built sends it as the other activation left it
call2_enter_shared_payload(prompt, retries) ==
    /\ call2.pc \in {"idle", "done"}
    /\ IF OPENAI_API_KEY = << >>
       THEN call2' = [IdleCall EXCEPT !.pc = "done", !.prompt = prompt,
                                      !.retries = retries, !.text = MSG_NO_KEY]
       ELSE call2' = [IdleCall EXCEPT !.pc = "loop", !.prompt = prompt,
                                      !.retries = retries,
                                      !.messages = IF call.messages # << >>
                                                   THEN call.messages
                                                   ELSE InitialMessages(prompt),
                                      !.last_err = <<"unknown error">>]
    /\ UNCHANGED <<storeVars, OPENAI_API_KEY, call, hint, fp, feed, view, boot>>

\* call_enter, in the second activation
call2_enter(prompt, retries) ==
    /\ call2.pc \in {"idle", "done"}
    /\ IF OPENAI_API_KEY = << >>
       THEN call2' = [IdleCall EXCEPT !.pc = "done", !.prompt = prompt,
                                      !.retries = retries, !.text = MSG_NO_KEY]
       ELSE call2' = [IdleCall EXCEPT !.pc = "loop", !.prompt = prompt,
                                      !.retries = retries,
                                      !.messages = InitialMessages(prompt),
                                      !.last_err = <<"unknown error">>]
    /\ UNCHANGED <<storeVars, OPENAI_API_KEY, call, hint, fp, feed, view, boot>>

\* call_attempt, in the second activation
call2_attempt(up) ==
    /\ call2.pc = "loop"
    /\ call2.attempt < call2.retries
    /\ LET attempt == call2.attempt + 1
           c == [call2 EXCEPT !.attempt = attempt,
                              !.sent = Append(@, call2.messages),
                              !.outcomes = Append(@, up)]
       IN  call2' = IF up.kind = "exception" THEN OnException(c, attempt, up)
                    ELSE IF up.status >= 400 THEN OnHttpError(c, attempt, up)
                    ELSE OnReply(c, attempt, up)
    /\ UNCHANGED <<storeVars, OPENAI_API_KEY, call, hint, fp, feed, view, boot>>

\* call_exhausted, in the second activation
call2_exhausted ==
    /\ call2.pc = "loop"
    /\ call2.attempt >= call2.retries
    /\ call2' = [call2 EXCEPT !.pc = "done", !.ok = FALSE,
                               !.text = MSG_FAILED \o call2.last_err]
    /\ UNCHANGED <<storeVars, OPENAI_API_KEY, call, hint, fp, feed, view, boot>>

NextConcurrent ==
    \/ \E prompt \in Prompts, retries \in 0..MaxRetries : call_enter(prompt, retries)
    \/ \E up \in ConcurrentUpstream : call_attempt(up)
    \/ call_exhausted
    \/ \E prompt \in Prompts, retries \in 0..MaxRetries : call2_enter(prompt, retries)
    \/ \E up \in ConcurrentUpstream : call2_attempt(up)
    \/ call2_exhausted

\* two activations of call_openai_with_prompt, interleaved in every way
SpecConcurrent == InitClient /\ [][NextConcurrent]_vars

\* ------------------------------------------- _style_hint_for_thread alone
MaxStyleArg == 9

StyleArgs == 0..MaxStyleArg

\* one call of _style_hint_for_thread; the call before it is kept beside it
style_hint_call(thread_id, latest_post_id) ==
    /\ hint' = [prev |-> hint.last,
                last |-> [thread_id |-> thread_id, latest_post_id |-> latest_post_id,
                          style |-> style_hint_for_thread(thread_id, latest_post_id)]]
    /\ UNCHANGED <<storeVars, OPENAI_API_KEY, call, call2, fp, feed, view, boot>>

NextStyle == \E t \in StyleArgs, l \in StyleArgs : style_hint_call(t, l)

\* _style_hint_for_thread on every pair of arguments, twice in a row
SpecStyle == InitClient /\ [][NextStyle]_vars

\* ------------------------------------------------ the cache key alone
\* first posts: a plain one and one that holds the key's own separator
FpArticles == {<<"a">>, <<"a", "\n#last=", "1">>}

\* contents of the recent posts, newest first; a post may hold a blank line
\* and a dash, which "\n" being no control character of sanitize_text allows
FpRecents == {<< <<"a">> >>, << <<"a">>, <<"b">> >>, << <<"a", "\n\n", "- ", "b">> >>}

\* values of the environment's OPENAI_MODEL
FpModels == {OPENAI_MODEL, "gpt-4o"}

FpInputs(user, now) ==
    {NewFingerprint(t, user, now, a, r, l, m) :
        t \in ThreadIds, a \in FpArticles, r \in FpRecents, l \in 1..MaxPosts, m \in FpModels}

\* two requests, of two users at two times
InitFingerprint ==
    /\ OPENAI_API_KEY = << >>
    /\ call = IdleCall
    /\ call2 = IdleCall
    /\ hint = NoHints
    /\ feed = NoFeed
    /\ view = NoViews
    /\ boot = NoBoot
    /\ threads = << >>
    /\ posts = << >>
    /\ ai_summaries = << >>
    /\ req = [r \in Reqs |-> IdleReq]
    /\ \E f1 \in FpInputs(2, 0), f2 \in FpInputs(3, 1) : fp = <<f1, f2>>

\* the key as computed with the given canonical string
Keyed(f, raw) ==
    [f EXCEPT !.pc = "done",
              !.recent_text = JoinRecent(f.recent),
              !.style_hint = style_hint_for_thread(f.thread_id, f.latest_post_id),
              !.md = mode,
              !.raw_for_hash = raw,
              !.hash_key = sha256(raw)]

\* faulty variant: the canonical string names the user who asked
fingerprint_keys_on_user(i) ==
    /\ fp[i].pc = "new"
    /\ LET f == fp[i]
           raw == raw_for_hash(f.article_text, f.latest_post_id, JoinRecent(f.recent),
                               style_hint_for_thread(f.thread_id, f.latest_post_id),
                               mode, f.model) \o <<"\n#user=", ToString(f.user)>>
       IN  fp' = [fp EXCEPT ![i] = Keyed(f, raw)]
    /\ UNCHANGED <<storeVars, OPENAI_API_KEY, call, call2, hint, feed, view, boot>>

\* recent_text, style_hint, mode, recent_digest, raw_for_hash and hash_key of request i
fingerprint(i) ==
    /\ fp[i].pc = "new"
    /\ LET f == fp[i]
           raw == raw_for_hash(f.article_text, f.latest_post_id, JoinRecent(f.recent),
                               style_hint_for_thread(f.thread_id, f.latest_post_id),
                               mode, f.model)
       IN  fp' = [fp EXCEPT ![i] = Keyed(f, raw)]
    /\ UNCHANGED <<storeVars, OPENAI_API_KEY, call, call2, hint, feed, view, boot>>

NextFingerprint == \E i \in 1..2 : fingerprint(i)

SpecFingerprint == InitFingerprint /\ [][NextFingerprint]_vars

\* ------------------------------------------------------- the feed of home
MaxFeed == 2

\* readings of the clock: a second and its microseconds
Times == {[sec |-> sec, micro |-> micro] : sec \in 0..1, micro \in {0, 5}}

\* datetime.now(timezone.utc).isoformat(), as the characters that vary and
\* the "+00:00" that follows them: the fraction is left out when it is zero
isoformat(t) ==
    <<ToString(t.sec)>> \o (IF t.micro = 0 THEN << >> ELSE <<".", ToString(t.micro)>>)
                       \o <<"+">>

\* the code point of a character of a timestamp
Ord(ch) ==
    IF ch = "+" THEN 43
    ELSE IF ch = "." THEN 46
    ELSE 48 + (CHOOSE d \in 0..9 : ToString(d) = ch)

RECURSIVE StrLess(_, _)
\* a < b on str: by code point, a proper prefix first
StrLess(a, b) ==
    IF b = << >> THEN FALSE
    ELSE IF a = << >> THEN TRUE
    ELSE IF Ord(Head(a)) # Ord(Head(b)) THEN Ord(Head(a)) < Ord(Head(b))
    ELSE StrLess(Tail(a), Tail(b))

\* the place list.sort gives an item among sorted ones: behind every item
\* that is not greater (the sort is stable)
InsertByKey(sorted, item) ==
    LET n == Cardinality({i \in 1..Len(sorted) :
                              ~StrLess(item.created_at, sorted[i].created_at)})
    IN  SubSeq(sorted, 1, n) \o <<item>> \o SubSeq(sorted, n + 1, Len(sorted))

RECURSIVE SortByCreatedAt(_)
\* merged.sort(key=lambda x: x.get("created_at", ""))
SortByCreatedAt(items) ==
    IF items = << >> THEN << >>
    ELSE InsertByKey(SortByCreatedAt(SubSeq(items, 1, Len(items) - 1)), items[Len(items)])

\* rows of one table for the thread, in id order, each stamped by the clock
FeedRows(roles) ==
    UNION {[1..n -> {[role |-> role, created_at |-> isoformat(t)]
                        : role \in roles, t \in Times}] : n \in 0..MaxFeed}

InitFeed ==
    /\ OPENAI_API_KEY = << >>
    /\ call = IdleCall
    /\ call2 = IdleCall
    /\ hint = NoHints
    /\ fp = NoFingerprints
    /\ view = NoViews
    /\ boot = NoBoot
    /\ threads = << >>
    /\ posts = << >>
    /\ ai_summaries = << >>
    /\ req = [r \in Reqs |-> IdleReq]
    /\ \E msgs \in FeedRows({"assistant"}), ps \in FeedRows({"user"}) :
          feed = [NoFeed EXCEPT !.msgs = msgs, !.posts = ps]

\* faulty variant: the merged list is rendered as concatenated
home_unsorted ==
    /\ feed.pc = "idle"
    /\ feed' = [feed EXCEPT !.pc = "done", !.history = feed.msgs \o feed.posts]
    /\ UNCHANGED <<storeVars, OPENAI_API_KEY, call, call2, hint, fp, view, boot>>

\* GET /?thread_id=<an existing thread>: merged = msgs + posts, sorted
home ==
    /\ feed.pc = "idle"
    /\ feed' = [feed EXCEPT !.pc = "done",
                            !.history = SortByCreatedAt(feed.msgs \o feed.posts)]
    /\ UNCHANGED <<storeVars, OPENAI_API_KEY, call, call2, hint, fp, view, boot>>

NextFeed == home

SpecFeed == InitFeed /\ [][NextFeed]_vars

\* ---------------------------------------------------------- public pages
\* values of secrets.token_urlsafe(18); a column that is NULL holds << >>
Tokens == {<<"tok", ToString(i)>> : i \in 1..(MaxThreads + 1)}

\* faulty variant: publishing issues a new token whether or not one is stored
set_publish_always_new_token(thread_id, make_public) ==
    IF make_public
    THEN \E fresh \in Tokens :
            /\ \A i \in 1..Len(threads) : threads[i].public_token # fresh
            /\ threads' = [i \in 1..Len(threads) |->
                              IF i = thread_id
                              THEN [threads[i] EXCEPT !.is_public = 1,
                                                      !.public_token = fresh]
                              ELSE threads[i]]
    ELSE threads' = [i \in 1..Len(threads) |->
                        IF i = thread_id THEN [threads[i] EXCEPT !.is_public = 0]
                        ELSE threads[i]]

\* set_publish: 144 random bits are taken never to come out twice, as a
\* digest is taken never to collide
set_publish(thread_id, make_public) ==
    IF make_public
    THEN \E fresh \in Tokens :
            /\ \A i \in 1..Len(threads) : threads[i].public_token # fresh
            /\ LET kept  == IF thread_id \in 1..Len(threads)
                            THEN threads[thread_id].public_token ELSE << >>
                   token == IF kept # << >> THEN kept ELSE fresh
               IN  threads' = [i \in 1..Len(threads) |->
                                  IF i = thread_id
                                  THEN [threads[i] EXCEPT !.is_public = 1,
                                                          !.public_token = token]
                                  ELSE threads[i]]
    ELSE threads' = [i \in 1..Len(threads) |->
                        IF i = thread_id THEN [threads[i] EXCEPT !.is_public = 0]
                        ELSE threads[i]]

\* POST /threads/<thread_id>/publish: the form's make_public is negated
publish(u, thread_id, cur_val) ==
    /\ set_publish(thread_id, ~cur_val)
    /\ UNCHANGED <<posts, ai_summaries, req, OPENAI_API_KEY, call, otherVars>>

\* SELECT id ... FROM threads WHERE public_token=? AND is_public=1
PublicThreads(token) ==
    {i \in 1..Len(threads) : threads[i].public_token = token /\ threads[i].is_public = 1}

Respond(token, found) ==
    [prev |-> view.last,
     last |-> IF found = {} THEN [token |-> token, status |-> 404, thread_id |-> 0]
              ELSE [token |-> token, status |-> 200,
                    thread_id |-> CHOOSE i \in found : \A j \in found : i <= j]]

\* faulty variant: the SELECT leaves is_public out
public_view_ignores_is_public(token) ==
    /\ view' = Respond(token, {i \in 1..Len(threads) : threads[i].public_token = token})
    /\ UNCHANGED <<storeVars, OPENAI_API_KEY, call, call2, hint, fp, feed, boot>>

\* GET /p/<token>
public_view(token) ==
    /\ view' = Respond(token, PublicThreads(token))
    /\ UNCHANGED <<storeVars, OPENAI_API_KEY, call, call2, hint, fp, feed, boot>>

NextPublish ==
    \/ \E u \in SessionUsers, title \in UserTexts, body \in UserTexts :
            create_thread_route(u, title, body)
    \/ \E u \in SessionUsers, t \in ThreadIds, cur_val \in BOOLEAN : publish(u, t, cur_val)
    \/ \E token \in Tokens : public_view(token)

\* threads created, published and unpublished, and their public pages read
SpecPublish == InitClient /\ [][NextPublish]_vars

\* ------------------------------------------------------------- _on_boot
\* Flask's server runs each request on a thread of its own, and init_done is
\* a module global read and written without a lock: between the test and the
\* assignment a thread can be descheduled.

\* `if not init_done:` at the head of a request on thread w
on_boot_test(w) ==
    /\ boot.pc[w] = "idle"
    /\ boot' = [boot EXCEPT !.pc[w] = IF boot.init_done THEN "handler" ELSE "init_db"]
    /\ UNCHANGED <<storeVars, OPENAI_API_KEY, call, call2, hint, fp, feed, view>>

\* init_db() is entered: its first statement runs
init_db_begin(w) ==
    /\ boot.pc[w] = "init_db"
    /\ boot' = [boot EXCEPT !.pc[w] = "in_init_db", !.started = @ + 1]
    /\ UNCHANGED <<storeVars, OPENAI_API_KEY, call, call2, hint, fp, feed, view>>

\* init_db() commits, closes and returns
init_db_end(w) ==
    /\ boot.pc[w] = "in_init_db"
    /\ boot' = [boot EXCEPT !.pc[w] = "set", !.completed = @ + 1]
    /\ UNCHANGED <<storeVars, OPENAI_API_KEY, call, call2, hint, fp, feed, view>>

\* init_done = True
on_boot_set(w) ==
    /\ boot.pc[w] = "set"
    /\ boot' = [boot EXCEPT !.pc[w] = "handler", !.init_done = TRUE]
    /\ UNCHANGED <<storeVars, OPENAI_API_KEY, call, call2, hint, fp, feed, view>>

\* the route handler reads the store and answers; the thread takes the next request
route_handler(w) ==
    /\ boot.pc[w] = "handler"
    /\ boot' = [boot EXCEPT !.pc[w] = "idle"]
    /\ UNCHANGED <<storeVars, OPENAI_API_KEY, call, call2, hint, fp, feed, view>>

NextBoot ==
    \/ \E w \in Workers : on_boot_test(w)
    \/ \E w \in Workers : init_db_begin(w)
    \/ \E w \in Workers : init_db_end(w)
    \/ \E w \in Workers : on_boot_set(w)
    \/ \E w \in Workers : route_handler(w)

\* the requests of one process from its start
SpecBoot == InitClient /\ [][NextBoot]_vars

\* ------------------------------------------------------------------ claims
Finished(r) == req[r].pc = "done" /\ req[r].status # 400

Missed(r) == Finished(r) /\ req[r].hit = << >>

Served(r) == Finished(r) /\ req[r].hit # << >>

SameFingerprint(r1, r2) ==
    /\ r1 # r2
    /\ Finished(r1) /\ Finished(r2)
    /\ req[r1].thread_id = req[r2].thread_id
    /\ req[r1].hash_key = req[r2].hash_key

\* C1: a summarize_thread request that found a row for its (thread_id,
\* hash_key) completes without a single call of the generation client.
C1_HitNeverCallsGenerator ==
    \A r \in Reqs : req[r].hit # << >> => req[r].gen = 0

C1_Witness ==
    \E r \in Reqs : Served(r) /\ req[r].posted = AI_PREFIX \o req[r].hit[1].content

\* C2: a summarize_thread request that found no row for its (thread_id,
\* hash_key) has called the generation client when it completes and, if the
\* generation gave text, a row for the key holds that text.
C2_MissGeneratesAndStores ==
    \A r \in Reqs :
        Missed(r) =>
            /\ req[r].gen >= 1
            /\ req[r].generated # << >> =>
                  \E i \in CacheRows(ai_summaries, req[r].thread_id, req[r].hash_key) :
                      ai_summaries[i].content = req[r].generated[1]

\* C3: after two summarize_thread requests on one thread with one fingerprint
\* have both finished, at most one row is stored for the fingerprint and both
\* requests delivered the same content with the same outcome.
C3_SameFingerprintSameContent ==
    \A r1, r2 \in Reqs :
        SameFingerprint(r1, r2) =>
            /\ Cardinality(CacheRows(ai_summaries, req[r1].thread_id, req[r1].hash_key)) <= 1
            /\ req[r1].posted = req[r2].posted
            /\ req[r1].status = req[r2].status

C3_Witness ==
    \E r1, r2 \in Reqs :
        /\ SameFingerprint(r1, r2)
        /\ Served(r1) /\ Served(r2)
        /\ req[r1].posted # << >>

\* C4: of two requests that both missed the same (thread_id, hash_key), the
\* one whose insert collides re-reads the stored row: each completes with a
\* redirect, having delivered the content of the row stored for the key.
C4_CollisionLoserRereads ==
    \A r1, r2 \in Reqs :
        (SameFingerprint(r1, r2) /\ Missed(r1) /\ Missed(r2) /\ OPENAI_API_KEY # << >>) =>
            /\ req[r1].status = 302
            /\ \E i \in CacheRows(ai_summaries, req[r1].thread_id, req[r1].hash_key) :
                  req[r1].posted = AI_PREFIX \o ai_summaries[i].content

\* C5: ai_summaries never holds two rows with the same (thread_id, hash_key).
C5_OneRowPerKey ==
    \A i, j \in 1..Len(ai_summaries) :
        (ai_summaries[i].thread_id = ai_summaries[j].thread_id
            /\ ai_summaries[i].hash_key = ai_summaries[j].hash_key) => i = j

C5_Witness ==
    /\ Len(ai_summaries) >= 1
    /\ \E r1, r2 \in Reqs :
          /\ SameFingerprint(r1, r2) /\ Missed(r1) /\ Missed(r2)
          /\ ai_summaries[1].thread_id = req[r1].thread_id

\* C6: while the generation client can only fail (no credential), no step
\* adds a row to ai_summaries, and the step that completes a request which
\* missed the cache adds no post.
C6_NoCacheOnFailure ==
    [][OPENAI_API_KEY = << >> =>
          /\ ai_summaries' = ai_summaries
          /\ \A r \in Reqs :
                (req[r].pc = "finish" /\ req[r].hit = << >> /\ req'[r].pc = "done")
                    => posts' = posts]_vars

C6_Witness ==
    /\ OPENAI_API_KEY = << >>
    /\ \E r \in Reqs : Missed(r) /\ req[r].posted = << >>

\* C7: every step leaves each stored ai_summaries row in place and unchanged.
C7_AppendOnly ==
    [][\A i \in 1..Len(ai_summaries) :
          Len(ai_summaries') >= i /\ ai_summaries'[i] = ai_summaries[i]]_vars

C7_Witness ==
    \E r \in Reqs :
        /\ Served(r)
        /\ req[r].hit[1].id \in 1..Len(ai_summaries)
        /\ ai_summaries[req[r].hit[1].id] = req[r].hit[1]

Transient(up) == up.kind = "http" /\ up.status \in TransientStatuses

GoodReply(up) == up.kind = "http" /\ up.status < 400 /\ Strip(up.body) # << >>

\* C8: with the credential set, a call whose upstream failed transiently on
\* the first retries-1 attempts and then replied with text ends in success;
\* a call whose upstream only ever failed transiently ends in failure after
\* exactly `retries` HTTP requests.
C8_RetryBudget ==
    (call.pc = "done" /\ OPENAI_API_KEY # << >>) =>
        LET n == Len(call.outcomes) IN
        /\ (/\ n = call.retries
            /\ n >= 1
            /\ \A i \in 1..(n - 1) : Transient(call.outcomes[i])
            /\ GoodReply(call.outcomes[n]))
                => call.ok /\ Len(call.sent) = call.retries
        /\ (\A i \in 1..n : Transient(call.outcomes[i]))
                => ~call.ok /\ Len(call.sent) = call.retries

C8_Witness ==
    /\ call.pc = "done"
    /\ call.retries >= 3
    /\ Len(call.sent) = call.retries
    /\ \A i \in 1..(call.retries - 1) : Transient(call.outcomes[i])
    /\ GoodReply(call.outcomes[call.retries])
    /\ call.ok

Permanent(up) == up.kind = "http" /\ up.status >= 400 /\ up.status \notin TransientStatuses

LastOutcome == call.outcomes[Len(call.outcomes)]

\* C9 as first stated: once a response with a status >= 400 outside
\* {429, 500, 502, 503, 504} has arrived the call is over, a failure whose
\* detail carries the response body.
C9_PermanentErrorCarriesBody ==
    (call.outcomes # << >> /\ Permanent(LastOutcome)) =>
        /\ call.pc = "done"
        /\ ~call.ok
        /\ call.text = MSG_API_ERROR \o <<"HTTP ", ToString(LastOutcome.status), ": ">>
                                     \o LastOutcome.body

\* C9, amended: once a response with a status >= 400 outside {429, 500, 502,
\* 503, 504} has arrived the call is over, so no further request is sent
\* whatever attempts remain; it is a failure whose detail carries the status
\* and the first 500 characters of the response body.
C9_PermanentErrorEndsCall ==
    (call.outcomes # << >> /\ Permanent(LastOutcome)) =>
        /\ call.pc = "done"
        /\ ~call.ok
        /\ Len(call.sent) = Len(call.outcomes)
        /\ \E k \in 0..ErrDetailLimit :
              /\ k = Len(LastOutcome.body) \/ (k = ErrDetailLimit /\ Len(LastOutcome.body) > k)
              /\ call.text = MSG_API_ERROR
                                \o <<"HTTP ", ToString(LastOutcome.status), ": ">>
                                \o SubSeq(LastOutcome.body, 1, k)

C9_Witness ==
    /\ call.pc = "done"
    /\ call.outcomes # << >>
    /\ Permanent(LastOutcome)
    /\ Len(LastOutcome.body) > ErrDetailLimit
    /\ Len(call.sent) = 1
    /\ call.retries >= 3

\* C10: without the credential a call is over as soon as it is entered: a
\* failure, with no HTTP request sent and no sleep, whatever the budget.
C10_MissingKeyFailsAtOnce ==
    (OPENAI_API_KEY = << >> /\ call.pc # "idle") =>
        /\ call.pc = "done"
        /\ ~call.ok
        /\ call.text = MSG_NO_KEY
        /\ call.sent = << >>
        /\ call.sleeps = << >>
        /\ call.attempt = 0

C10_Witness ==
    /\ OPENAI_API_KEY = << >>
    /\ call.pc = "done"
    /\ call.retries >= 3
    /\ call.sent = << >>

EmptyReply(up) == up.kind = "http" /\ up.status < 400 /\ Strip(up.body) = << >>

NetworkFailure(up) == up.kind = "exception"

\* C11: an empty or whitespace-only reply with status < 400 that arrives
\* while attempts remain does not end the call: the next request carries the
\* conversation of the one before plus the corrective user message, and the
\* attempt counter, which HTTP and network failures advance too, has
\* advanced by one, never past the budget.
C11_EmptyReplyRetried ==
    /\ call.attempt = Len(call.outcomes)
    /\ Len(call.sent) = Len(call.outcomes)
    /\ call.retries >= 1 => Len(call.sent) <= call.retries
    /\ \A i \in 1..Len(call.outcomes) :
          (EmptyReply(call.outcomes[i]) /\ i < call.retries) =>
              IF i = Len(call.outcomes)
              THEN /\ call.pc = "loop"
                   /\ call.messages = Append(call.sent[i], CorrectiveMessage)
              ELSE call.sent[i + 1] = Append(call.sent[i], CorrectiveMessage)

C11_Witness ==
    /\ call.pc = "done"
    /\ call.ok
    /\ call.retries = 3
    /\ Len(call.outcomes) = 3
    /\ EmptyReply(call.outcomes[1])
    /\ Transient(call.outcomes[2])
    /\ Len(call.sent[3]) = 3

\* what the failure result says of the attempt that ended with `up`
FailureOf(up) ==
    IF NetworkFailure(up) THEN MSG_NETWORK \o up.body
    ELSE IF up.status >= 400
    THEN MSG_API_ERROR \o <<"HTTP ", ToString(up.status), ": ">>
                       \o SubSeq(up.body, 1, Min(Len(up.body), ErrDetailLimit))
    ELSE MSG_EMPTY

\* C12: a call that has used every attempt of a budget of at least one and
\* failed reports the failure of its last attempt, whatever transient
\* statuses, exceptions and empty replies the earlier attempts met.
C12_ExhaustedCarriesLastError ==
    (/\ call.pc = "done"
     /\ ~call.ok
     /\ call.retries >= 1
     /\ Len(call.outcomes) = call.retries) => call.text = FailureOf(LastOutcome)

C12_Witness ==
    /\ call.pc = "done"
    /\ ~call.ok
    /\ call.retries = 3
    /\ Len(call.outcomes) = 3
    /\ Transient(call.outcomes[1])
    /\ EmptyReply(call.outcomes[2])
    /\ NetworkFailure(call.outcomes[3])
    /\ call.text = MSG_NETWORK \o call.outcomes[3].body

\* C13: a call that ended in success got, on its last attempt, a reply with
\* status < 400 whose text is not empty once trimmed, and returns that text
\* trimmed: not empty, with no whitespace at either end.
C13_SuccessIsTrimmedText ==
    call.ok =>
        /\ call.pc = "done"
        /\ call.outcomes # << >>
        /\ LastOutcome.kind = "http" /\ LastOutcome.status < 400
        /\ call.text # << >>
        /\ call.text[1] \notin Whitespace
        /\ call.text[Len(call.text)] \notin Whitespace
        /\ \E i, j \in 1..Len(LastOutcome.body) :
              /\ call.text = SubSeq(LastOutcome.body, i, j)
              /\ \A k \in 1..Len(LastOutcome.body) :
                    (k < i \/ k > j) => LastOutcome.body[k] \in Whitespace

C13_Witness ==
    /\ call.pc = "done"
    /\ call.ok
    /\ LastOutcome.body = <<" ", "g2", "\n">>
    /\ call.text = <<"g2">>

\* C14 as first stated: the sleep before the retry after failed attempt k is
\* base * k with one base for transient statuses and for exceptions alike.
C14_OneBackoffBase ==
    \E base \in 1..20 :
        \A k \in 1..Len(call.sleeps) :
            (Transient(call.outcomes[k]) \/ NetworkFailure(call.outcomes[k]))
                => call.sleeps[k] = base * k

\* C14, amended: the sleep before the retry after failed attempt k is
\* base * k seconds, with base 1.2 after a transient status, 1.0 after an
\* exception and 0.8 after an empty reply (sleeps are in tenths of a
\* second); every attempt but the last of the call is followed by one sleep,
\* the last by none.
C14_LinearBackoffPerKind ==
    /\ \A k \in 1..Len(call.sleeps) :
          /\ k <= Len(call.outcomes)
          /\ Transient(call.outcomes[k]) => call.sleeps[k] = 12 * k
          /\ NetworkFailure(call.outcomes[k]) => call.sleeps[k] = 10 * k
          /\ EmptyReply(call.outcomes[k]) => call.sleeps[k] = 8 * k
    /\ call.pc = "loop" => Len(call.sleeps) = Len(call.outcomes)
    /\ (call.pc = "done" /\ call.outcomes # << >>) =>
            Len(call.sleeps) = Len(call.outcomes) - 1
    /\ call.retries >= 1 => Len(call.sleeps) < call.retries

C14_Witness ==
    /\ call.pc = "done"
    /\ call.retries = 3
    /\ Len(call.outcomes) = 3
    /\ Transient(call.outcomes[1])
    /\ NetworkFailure(call.outcomes[2])
    /\ NetworkFailure(call.outcomes[3])
    /\ call.sleeps = <<12, 20>>

\* what an activation has sent, given the replies it got: the two messages
\* of its own prompt, then one corrective message per empty reply of its own
OwnConversation(c, i) ==
    /\ Len(c.sent[i]) >= 2
    /\ c.sent[i][1] = [role |-> "system",
                       content |-> <<"You are a helpful, concise, reliable Japanese assistant.">>]
    /\ c.sent[i][2] = [role |-> "user", content |-> c.prompt]
    /\ Len(c.sent[i]) = 2 + Cardinality({k \in 1..(i - 1) : EmptyReply(c.outcomes[k])})

\* C15: every request of every activation, whether it runs after or beside
\* another one, carries the two-message conversation of its own prompt and
\* the corrective messages of its own empty replies, and nothing else.
C15_NoStateBetweenCalls ==
    /\ \A i \in 1..Len(call.sent) : OwnConversation(call, i)
    /\ \A i \in 1..Len(call2.sent) : OwnConversation(call2, i)

C15_Witness ==
    /\ call.pc = "loop"
    /\ Len(call.messages) = 4
    /\ call2.pc = "loop"
    /\ call2.prompt = call.prompt
    /\ Len(call2.sent) = 1
    /\ Len(call2.sent[1]) = 2
    /\ Len(call2.messages) = 3

StyleCount == 5

\* the style the rotation gives: the one at index (thread_id + latest_post_id) mod 5
RotatedStyle(h) ==
    \E k \in 0..(StyleCount - 1) :
        /\ (h.thread_id + h.latest_post_id - k) % StyleCount = 0
        /\ h.style = styles[k + 1]

\* C16: _style_hint_for_thread returns the element of the five-style list at
\* index (thread_id + latest_post_id) mod 5, an index within 0..4, and two
\* calls with equal arguments return the same style.
C16_StyleRotation ==
    /\ Len(styles) = StyleCount
    /\ hint.last # NoHint => RotatedStyle(hint.last)
    /\ hint.prev # NoHint => RotatedStyle(hint.prev)
    /\ (/\ hint.prev.thread_id = hint.last.thread_id
        /\ hint.prev.latest_post_id = hint.last.latest_post_id)
            => hint.prev.style = hint.last.style

C16_Witness ==
    /\ hint.prev.thread_id = 2 /\ hint.prev.latest_post_id = 7
    /\ hint.prev.style = "s4_risk_merit"
    /\ hint.last.thread_id = 7 /\ hint.last.latest_post_id = 8
    /\ hint.last.style = "s0_questions"

\* the fields of a generation request
FingerprintFields(f) ==
    <<f.article_text, f.latest_post_id, f.recent, f.style_hint, f.md, f.model>>

BothKeyed == Len(fp) = 2 /\ fp[1].pc = "done" /\ fp[2].pc = "done"

\* C17: two requests with the same article text, latest post id, recent
\* posts, style hint, mode and model have the same hash_key, though they
\* come from different users at different times.
C17_FingerprintDeterministic ==
    (BothKeyed /\ FingerprintFields(fp[1]) = FingerprintFields(fp[2]))
        => fp[1].hash_key = fp[2].hash_key

C17_Witness ==
    /\ BothKeyed
    /\ FingerprintFields(fp[1]) = FingerprintFields(fp[2])
    /\ fp[1].user # fp[2].user
    /\ fp[1].now # fp[2].now
    /\ Len(fp[1].recent) = 2
    /\ fp[1].hash_key # << >>

ReadingOf(created_at) == CHOOSE t \in Times : isoformat(t) = created_at

Earlier(t1, t2) == t1.sec < t2.sec \/ (t1.sec = t2.sec /\ t1.micro < t2.micro)

\* C19: in the history home renders, no item is followed by one with a
\* smaller created_at, as strings and as the instants they were written
\* from, and every row of either source is in it.
C19_FeedNonDecreasing ==
    feed.pc = "done" =>
        /\ Len(feed.history) = Len(feed.msgs) + Len(feed.posts)
        /\ \A i \in 1..(Len(feed.history) - 1) :
              /\ ~StrLess(feed.history[i + 1].created_at, feed.history[i].created_at)
              /\ ~Earlier(ReadingOf(feed.history[i + 1].created_at),
                          ReadingOf(feed.history[i].created_at))

C19_Witness ==
    /\ feed.pc = "done"
    /\ Len(feed.msgs) = 2 /\ Len(feed.posts) = 2
    /\ feed.posts[1].created_at = <<"0", "+">>
    /\ feed.msgs[1].created_at = <<"0", ".", "5", "+">>
    /\ feed.posts[2].created_at = <<"1", "+">>
    /\ feed.msgs[2].created_at = <<"1", ".", "5", "+">>
    /\ feed.history[1].role = "user" /\ feed.history[2].role = "assistant"
    /\ feed.history[3].role = "user" /\ feed.history[4].role = "assistant"

\* C20: every answer of public_view is 200 for a thread that, as it is
\* answered, holds the token with is_public = 1, and 404 otherwise, so 404
\* for the token of a thread that set_publish has made private; the step
\* that answers changes no table.
C20_PublicOnlyWhilePublished ==
    [][view' # view =>
          /\ threads' = threads /\ posts' = posts /\ ai_summaries' = ai_summaries
          /\ view'.last.status \in {200, 404}
          /\ view'.last.status = 200 =>
                /\ view'.last.thread_id \in 1..Len(threads)
                /\ threads[view'.last.thread_id].is_public = 1
                /\ threads[view'.last.thread_id].public_token = view'.last.token
          /\ \A i \in 1..Len(threads) :
                threads[i].public_token = view'.last.token =>
                    view'.last.status = (IF threads[i].is_public = 1 THEN 200 ELSE 404)]_vars

C20_Witness ==
    /\ view.prev.status = 200
    /\ view.last.status = 404
    /\ view.last.token = view.prev.token
    /\ threads[view.prev.thread_id].public_token = view.last.token
    /\ threads[view.prev.thread_id].is_public = 0

\* C21: no step of any request calls the generation client or changes
\* ai_summaries; a table that is empty stays empty.
C21_NothingGeneratedOrStored ==
    [][/\ ai_summaries' = ai_summaries
       /\ \A r \in Reqs : req'[r].gen = 0 /\ req'[r].generated = << >>]_vars

C21_Witness ==
    /\ ai_summaries = << >>
    /\ OPENAI_API_KEY # << >>
    /\ \A r \in Reqs : Missed(r) /\ req[r].gen = 0

\* the step with which handler context r leaves summarize_thread
Completes(r) == req[r].pc = "finish" /\ req'[r].pc = "done"

\* C22: the step that completes a request which found a row appends exactly
\* one post, in the request's thread, authored by the AI user and holding the
\* row's content behind the AI label, and leaves ai_summaries as it was; the
\* step that completes a request which found no row appends no post.
C22_HitAppendsOneAiPost ==
    [][\A r \in Reqs :
          Completes(r) =>
              /\ ai_summaries' = ai_summaries
              /\ IF req[r].hit # << >>
                 THEN /\ Len(posts') = Len(posts) + 1
                      /\ SubSeq(posts', 1, Len(posts)) = posts
                      /\ posts'[Len(posts')].thread_id = req[r].thread_id
                      /\ posts'[Len(posts')].user_id = AiUserId
                      /\ posts'[Len(posts')].content = AI_PREFIX \o req[r].hit[1].content
                 ELSE posts' = posts]_vars

C22_Witness ==
    \E r1, r2 \in Reqs :
        /\ Served(r1) /\ Missed(r2)
        /\ req[r1].thread_id = req[r2].thread_id
        /\ posts[Len(posts)].user_id = AiUserId
        /\ posts[Len(posts)].content = req[r1].posted
        /\ req[r2].latest_post_id = Len(posts)

\* the step with which handler context r reads the posts of its thread
Reads(r) == req[r].pc # "lookup" /\ req'[r].pc = "lookup"

\* C25: a summarize_thread request that reads a thread after a cache hit on
\* that thread has completed sees a later latest post and computes another
\* hash_key, and two requests served the same row read the same latest post:
\* no row is served to two requests of which one began after the other ended.
C25_HitInvalidatesItself ==
    [][/\ \A r1, r2 \in Reqs :
             (Served(r1) /\ Reads(r2) /\ req'[r2].thread_id = req[r1].thread_id) =>
                 /\ req'[r2].latest_post_id > req[r1].latest_post_id
                 /\ req'[r2].hash_key # req[r1].hash_key
       /\ \A r1, r2 \in Reqs :
             (req'[r1].hit # << >> /\ req'[r2].hit # << >>
                 /\ req'[r1].hit[1].id = req'[r2].hit[1].id) =>
                 req'[r1].latest_post_id = req'[r2].latest_post_id]_vars

C25_Witness ==
    \E r1, r2 \in Reqs :
        /\ Served(r1) /\ Missed(r2)
        /\ req[r1].thread_id = req[r2].thread_id
        /\ req[r2].latest_post_id > req[r1].latest_post_id
        /\ posts[req[r2].latest_post_id].content = req[r1].posted
        /\ posts[req[r2].latest_post_id].user_id = AiUserId
        /\ req[r2].hash_key # req[r1].hash_key

\* C24: a thread that has a public_token keeps that token through every
\* step, unpublishing and publishing included; a token is issued only to a
\* thread that has none, by the step that publishes it.
C24_TokenKept ==
    [][\A i \in 1..Len(threads) :
          /\ threads[i].public_token # << >> =>
                threads'[i].public_token = threads[i].public_token
          /\ (threads[i].public_token = << >> /\ threads'[i].public_token # << >>) =>
                threads'[i].is_public = 1]_vars

C24_Witness ==
    \E i \in 1..Len(threads) :
        /\ threads[i].is_public = 1
        /\ threads[i].public_token # << >>
        /\ view.prev = [token |-> threads[i].public_token, status |-> 200, thread_id |-> i]
        /\ view.last = [token |-> threads[i].public_token, status |-> 404, thread_id |-> 0]

\* C26: every thread with is_public = 1 has a public_token.
C26_PublicHasToken ==
    \A i \in 1..Len(threads) :
        threads[i].is_public = 1 => threads[i].public_token # << >>

\* the requests a budget allows
Allowed(retries) == IF retries > 0 THEN retries ELSE 0

\* C27: whatever the budget and whatever the upstream does, a call never has
\* sent more requests than its budget allows, a call with a budget of zero or
\* less ends as a failure having sent none, every call that has ended carries
\* a text, and every call that has entered its loop ends.
C27_TerminatesWithinBudget ==
    /\ [](/\ Len(call.sent) <= Allowed(call.retries)
          /\ call.pc = "done" => call.text # << >>
          /\ (call.pc = "done" /\ call.retries <= 0) =>
                (call.sent = << >> /\ ~call.ok))
    /\ (call.pc = "loop") ~> (call.pc = "done")

C27_Witness ==
    /\ call.pc = "done"
    /\ call.retries = MaxRetries
    /\ Len(call.sent) = MaxRetries
    /\ call.outcomes[1].kind = "exception"
    /\ call.outcomes[2].status = 200
    /\ call.outcomes[MaxRetries].status \in TransientStatuses

\* C23: init_db is executed once per process, whatever the requests and
\* however they overlap, and it has completed before a route handler reads
\* the store.
C23_InitExactlyOnce ==
    /\ boot.started <= 1
    /\ \A w \in Workers : boot.pc[w] = "handler" => boot.completed = 1

====
